---- MODULE Spec2Model ----
(***************************************************************************)
(* RedisCache (02_Util/src/cache/redis.ts): the cache facade over a shared *)
(* Redis store, and its onChange wait built on keyspace notifications.     *)
(*                                                                         *)
(* Strings are TLA+ strings and the storage key is built by concatenation, *)
(* as the template literal `${namespace}:${key}` builds it.                *)
(***************************************************************************)
EXTENDS Integers, Sequences, FiniteSets, TLC

\* ------------------------------------------------------------------ bounds
\* Largest expireSeconds a caller passes (whole seconds).
MaxTTL == 1
\* Largest waitSeconds a caller passes to onChange.
MaxWaitSeconds == 1
\* How many times the subscription callback of one onChange call may run.
MaxDeliveries == 2

\* ------------------------------------------------------------------ inputs
\* "" stands for a namespace argument that is undefined or empty: both are
\* falsy in `namespace || "default"`.
\* "" is the empty payload, "X" is not JSON, "1" is JSON text.
\* 0 stands for an absent expireSeconds ({EX: undefined}: no expiry is set).
TTLArgs == 0..MaxTTL

\* The facade used by concurrent callers: two storage keys.
Callers == {"c1", "c2"}
CacheKeys == {"k"}
CacheNamespaces == {"", "ns"}
CacheValues == {"", "X"}

\* The facade used by one caller, operation by operation, with and without a
\* deserializer, on a store that answers or fails.
FacadeCallers == {"c1"}
FacadeKeys == {"k"}
FacadeNamespaces == {""}
FacadeValues == {"", "X", "1"}

\* onChange on ("k", no namespace), and the writes of other users of the
\* store, <<key, value, expireSeconds>> in the same namespace: to the
\* storage key "default:k" and to "default:default:k".
Waits == {"w1"}
WaitKeys == {"k"}
WaitNamespaces == {""}
OtherWrites ==
    {<<"k", v, ttl>> : v \in {"", "X"}, ttl \in TTLArgs}
        \cup {<<"default:k", "X", 0>>}
OtherKeys == {"k", "default:k"}

\* Two onChange invocations in flight at once, on one key or on two, beside
\* the writes and removes of other users of the store.
SharedWaits == {"w1", "w2"}
SharedKeys == {"k", "j"}
SharedMessages == {"set", "del"}

\* Keys and namespaces that contain ":" themselves.
ColonKeys == {"lock:1", "1"}
ColonNamespaces == {"a", "a:lock"}
ColonValues == {"X", "Y"}

\* ------------------------------------------------------------ key namespacer
\* namespace = namespace || "default"; key = `${namespace}:${key}`
StorageKey(key, namespace) ==
    (IF namespace = "" THEN "default" ELSE namespace) \o ":" \o key

\* Channel: `__keyspace@0__:${key}`
Channel(skey) == "__keyspace@0__:" \o skey

\* The channel on which a store publishes the keyspace events of the key
\* skey of its database number database.
KeyspaceChannel(database, skey) ==
    "__keyspace@" \o ToString(database) \o "__:" \o skey

\* ------------------------------------------------------------ clients
\* A client: the server and the database number it is for, and whether
\* connect() has been called on it. createClient() with no options is a
\* client for the local server and database 0.
NoOptions == [none |-> TRUE]

createClient(clientOptions) ==
    IF clientOptions = NoOptions
    THEN [server |-> "localhost", database |-> 0, connect |-> FALSE]
    ELSE [server |-> clientOptions.server,
          database |-> clientOptions.database, connect |-> FALSE]

\* client.connect()
connect(cl) == [cl EXCEPT !.connect = TRUE]

\* this._client after the constructor has run (lines 29-34)
constructor(clientOptions) ==
    connect(IF clientOptions # NoOptions THEN createClient(clientOptions)
            ELSE createClient(NoOptions))

\* The clientOptions a RedisCache is constructed with: none, or a server
\* and a database number.
Servers == {"localhost", "redis"}
Databases == {0, 1}
ClientOptions ==
    {NoOptions} \cup
        {[server |-> s, database |-> d] : s \in Servers, d \in Databases}

\* no client yet
NoClient == [server |-> "", database |-> 0, connect |-> FALSE]

\* ------------------------------------------------------------ values
\* What a facade call gives its caller.
Null == [t |-> "null"]
Str(s) == [t |-> "string", s |-> s]
Bool(b) == [t |-> "bool", b |-> b]
\* plainToInstance(classConstructor(), JSON.parse(result)) of JSON text s
Instance(s) == [t |-> "instance", of |-> s]
\* a rejected promise: e is "store" (the client's command failed) or
\* "syntax" (JSON.parse threw)
Rejected(e) == [t |-> "rejected", e |-> e]
\* the promise has not settled
Pending == [t |-> "pending"]
\* an error thrown to a blocked caller: e as in Rejected
Thrown(e) == [t |-> "thrown", e |-> e]

\* Replies of the Redis client.
Nil == [t |-> "nil"]
Bulk(s) == [t |-> "bulk", s |-> s]
Num(n) == [t |-> "num", n |-> n]

\* JavaScript truthiness of a reply used as a condition, `if (result)`:
\* null and the empty string are falsy.
Truthy(reply) == reply.t = "bulk" /\ reply.s # ""

\* JSON.parse accepts s
IsJson(s) == s \in {"1"}

\* ------------------------------------------------------------ the store
\* store: storage key -> [val, ttl], defined on the live keys only.
\* ttl = 0: no expiry; ttl > 0: seconds left.
Live(st, skey) == skey \in DOMAIN st

Without(st, skey) == [k \in DOMAIN st \ {skey} |-> st[k]]

With(st, skey, val, ttl) ==
    [k \in DOMAIN st \cup {skey} |->
        IF k = skey THEN [val |-> val, ttl |-> ttl] ELSE st[k]]

\* EXISTS key
RedisExists(st, skey) == IF Live(st, skey) THEN Num(1) ELSE Num(0)

\* GET key
RedisGet(st, skey) == IF Live(st, skey) THEN Bulk(st[skey].val) ELSE Nil

\* DEL key: [store, reply, events]
RedisDel(st, skey) ==
    IF Live(st, skey)
    THEN [store |-> Without(st, skey), reply |-> Num(1), events |-> {"del"}]
    ELSE [store |-> st, reply |-> Num(0), events |-> {}]

\* SET key value [EX ttl] [NX]: [store, reply, events]
RedisSet(st, skey, val, ttl, nx) ==
    IF nx /\ Live(st, skey)
    THEN [store |-> st, reply |-> Nil, events |-> {}]
    ELSE [store |-> With(st, skey, val, ttl), reply |-> Bulk("OK"),
          events |-> IF ttl > 0 THEN {"set", "expire"} ELSE {"set"}]

\* One second passes: every expiry counts down, and an entry whose expiry
\* reaches zero is gone.
Expiring(st) == {k \in DOMAIN st : st[k].ttl = 1}

\* a second after which an entry whose expiry reaches zero stays, unexpiring
Elapse1Keeps(st) ==
    [k \in DOMAIN st |->
        IF st[k].ttl > 0 THEN [st[k] EXCEPT !.ttl = @ - 1] ELSE st[k]]

Elapse1(st) ==
    [k \in DOMAIN st \ Expiring(st) |->
        IF st[k].ttl > 0 THEN [st[k] EXCEPT !.ttl = @ - 1] ELSE st[k]]

RECURSIVE Elapse(_, _)
Elapse(st, n) == IF n = 0 THEN st ELSE Elapse(Elapse1(st), n - 1)

\* ------------------------------------------------------------ the facade
\* Each operation is one command on the shared client and a `then` on its
\* reply. As an operator: the store after the command has run, the
\* notifications the command makes the store publish for skey, and what the
\* returned promise settles with. fail: the command fails (the client's
\* promise rejects), and no `then` callback runs.
Effect(skey, st, events, ret) ==
    [skey |-> skey, store |-> st, events |-> events, ret |-> ret]

exists(st, key, namespace, fail) ==
    LET skey == StorageKey(key, namespace) IN
    IF fail THEN Effect(skey, st, {}, Rejected("store"))
    ELSE Effect(skey, st, {}, Bool(RedisExists(st, skey) = Num(1)))

\* a remove that reports success whatever DEL replied
removeAlwaysTrue(st, key, namespace, fail) ==
    LET skey == StorageKey(key, namespace)
        r == RedisDel(st, skey) IN
    IF fail THEN Effect(skey, st, {}, Rejected("store"))
    ELSE Effect(skey, r.store, r.events, Bool(r.reply \in {Num(0), Num(1)}))

remove(st, key, namespace, fail) ==
    LET skey == StorageKey(key, namespace)
        r == RedisDel(st, skey) IN
    IF fail THEN Effect(skey, st, {}, Rejected("store"))
    ELSE Effect(skey, r.store, r.events, Bool(r.reply = Num(1)))

\* the `then` callback of get and getSync
GetThen(result, classConstructor) ==
    IF Truthy(result)
    THEN IF classConstructor
         THEN IF IsJson(result.s) THEN Instance(result.s)
              ELSE Rejected("syntax")
         ELSE Str(result.s)
    ELSE Null

get(st, key, namespace, classConstructor, fail) ==
    LET skey == StorageKey(key, namespace) IN
    IF fail THEN Effect(skey, st, {}, Rejected("store"))
    ELSE Effect(skey, st, {}, GetThen(RedisGet(st, skey), classConstructor))

\* the `then` callback of set, setIfNotExist and setSync
SetThen(result) ==
    IF Truthy(result) THEN Bool(result = Bulk("OK")) ELSE Bool(FALSE)

\* a set that catches the failure of its command and returns false
setSwallows(st, key, value, namespace, expireSeconds, fail) ==
    LET skey == StorageKey(key, namespace)
        r == RedisSet(st, skey, value, expireSeconds, FALSE) IN
    IF fail THEN Effect(skey, st, {}, Bool(FALSE))
    ELSE Effect(skey, r.store, r.events, SetThen(r.reply))

set(st, key, value, namespace, expireSeconds, fail) ==
    LET skey == StorageKey(key, namespace)
        r == RedisSet(st, skey, value, expireSeconds, FALSE) IN
    IF fail THEN Effect(skey, st, {}, Rejected("store"))
    ELSE Effect(skey, r.store, r.events, SetThen(r.reply))

\* setIfNotExist without the NX option
setIfNotExistNoNX(st, key, value, namespace, expireSeconds, fail) ==
    set(st, key, value, namespace, expireSeconds, fail)

setIfNotExist(st, key, value, namespace, expireSeconds, fail) ==
    LET skey == StorageKey(key, namespace)
        r == RedisSet(st, skey, value, expireSeconds, TRUE) IN
    IF fail THEN Effect(skey, st, {}, Rejected("store"))
    ELSE Effect(skey, r.store, r.events, SetThen(r.reply))

\* deasyncPromise(promise): runs the event loop until the promise has settled,
\* then returns what it resolved with, or throws what it rejected with.
deasyncPromise(ret) == IF ret.t = "rejected" THEN Thrown(ret.e) ELSE ret

\* a getSync that returns the reply as it is, whatever the classConstructor
getSyncRaw(st, key, namespace, classConstructor, fail) ==
    LET skey == StorageKey(key, namespace) IN
    IF fail THEN Effect(skey, st, {}, deasyncPromise(Rejected("store")))
    ELSE Effect(skey, st, {},
                deasyncPromise(GetThen(RedisGet(st, skey), FALSE)))

getSync(st, key, namespace, classConstructor, fail) ==
    LET skey == StorageKey(key, namespace) IN
    IF fail THEN Effect(skey, st, {}, deasyncPromise(Rejected("store")))
    ELSE Effect(skey, st, {},
                deasyncPromise(GetThen(RedisGet(st, skey), classConstructor)))

setSync(st, key, value, namespace, expireSeconds, fail) ==
    LET skey == StorageKey(key, namespace)
        r == RedisSet(st, skey, value, expireSeconds, FALSE) IN
    IF fail THEN Effect(skey, st, {}, deasyncPromise(Rejected("store")))
    ELSE Effect(skey, r.store, r.events, deasyncPromise(SetThen(r.reply)))

\* ------------------------------------------------------------ schema processor
\* 00_Base/json-schema-processor.js. A JavaScript object is the sequence of
\* its <<key, value>> properties in insertion order: assigning to a key it
\* has replaces the value in place, assigning to a new key appends.
MaxFiles == 2

\* The schemas of the input directory: their $id (after line 104) and the
\* keys of their "definitions", in the order of the file.
SchemaIds == {"ARequest", "AResponse", "BRequest"}
DefinitionLists ==
    {<< >>,
     <<"CustomDataType">>,
     <<"StatusEnumType", "CustomDataType">>,
     <<"CustomDataType", "IdTokenType", "StatusEnumType">>,
     <<"IdTokenType", "ReasonEnumType">>}

\* key.includes('EnumType')
IncludesEnumType(key) == key \in {"StatusEnumType", "ReasonEnumType"}

Has(obj, key) == \E i \in 1..Len(obj) : obj[i][1] = key

Lookup(obj, key) == obj[CHOOSE i \in 1..Len(obj) : obj[i][1] = key][2]

\* obj[key] = value
Put(obj, key, value) ==
    IF Has(obj, key)
    THEN [i \in 1..Len(obj) |->
            IF obj[i][1] = key THEN <<key, value>> ELSE obj[i]]
    ELSE Append(obj, <<key, value>>)

\* Object.assign(target, source)
RECURSIVE ObjectAssign(_, _)
ObjectAssign(target, source) ==
    IF source = << >> THEN target
    ELSE ObjectAssign(Put(target, Head(source)[1], Head(source)[2]),
                      Tail(source))

mapFromId(id) == << <<id, id>> >>

\* the loop of collectDefinitions (lines 185-191) over the keys that remain
RECURSIVE CollectKeys(_, _, _)
CollectKeys(keys, id, acc) ==
    IF keys = << >> THEN acc
    ELSE CollectKeys(Tail(keys), id,
            IF ~IncludesEnumType(Head(keys))
            THEN [acc EXCEPT !.definitions = Put(@, Head(keys), id)]
            ELSE [acc EXCEPT !.enumDefinitions = Append(@, Head(keys))])

\* a collectDefinitions that does not tell the enum types apart
collectDefinitionsAll(jsonSchema, id) ==
    [definitions |->
        ObjectAssign(mapFromId(id),
            [i \in 1..Len(jsonSchema.definitions) |->
                <<jsonSchema.definitions[i], id>>]),
     enumDefinitions |-> << >>]

collectDefinitions(jsonSchema, id) ==
    CollectKeys(jsonSchema.definitions, id,
                [definitions |-> mapFromId(id), enumDefinitions |-> << >>])

\* What the promise of processJsonSchema(data) resolves with (line 166),
\* but for `enums`, the enum source text cut from the compiled TypeScript,
\* which goes to enums/index.ts and not to the model index.
processJsonSchema(jsonSchema) == collectDefinitions(jsonSchema, jsonSchema.id)

\* values.forEach(... Object.assign(globalDefinitions, definitions) ...),
\* line 36-37, over the values that remain
RECURSIVE AssignAll(_, _)
AssignAll(globalDefinitions, values) ==
    IF values = << >> THEN globalDefinitions
    ELSE AssignAll(ObjectAssign(globalDefinitions, Head(values).definitions),
                   Tail(values))

\* values.forEach(... globalEnums.add(entry) ...), lines 39-43
AllEnums(values) ==
    UNION {{values[i].enumDefinitions[j] :
                j \in 1..Len(values[i].enumDefinitions)} :
            i \in 1..Len(values)}

\* "Prepare all definitions for export", lines 69-76, over the properties
\* of globalDefinitions that remain
RECURSIVE PrepareExports(_, _)
PrepareExports(properties, exportMap) ==
    IF properties = << >> THEN exportMap
    ELSE LET key == Head(properties)[1]
             definitionSource == Head(properties)[2]
         IN  PrepareExports(Tail(properties),
                IF ~Has(exportMap, definitionSource)
                THEN Put(exportMap, definitionSource, <<key>>)
                ELSE Put(exportMap, definitionSource,
                         Append(Lookup(exportMap, definitionSource), key)))

\* The export statements: `export * from './enums'`,
\* `export { names } from './types/${from}'` and
\* `export { default as ${from}Schema } from './schemas/${from}.json'`.
EnumsExport == [kind |-> "enums"]
TypesExport(names, from) == [kind |-> "types", names |-> names, from |-> from]
SchemaExport(from) ==
    [kind |-> "schema", name |-> from \o "Schema", from |-> from]

\* "Export all definitions and schemas", lines 79-86, over the properties of
\* exportMap that remain
RECURSIVE PushExports(_, _)
PushExports(properties, exportStatements) ==
    IF properties = << >> THEN exportStatements
    ELSE PushExports(Tail(properties),
            exportStatements \o
                <<TypesExport(Head(properties)[2], Head(properties)[1]),
                  SchemaExport(Head(properties)[1])>>)

\* not yet resolved
NotYet == [definitions |-> << >>, enumDefinitions |-> <<"?">>]

\* The processor that has not been run.
NoIndex ==
    [pc |-> "idle", files |-> << >>, values |-> << >>,
     globalDefinitions |-> << >>, globalEnums |-> {},
     exportStatements |-> << >>]

\* ------------------------------------------------------------ state
VARIABLES
    store,    \* the Redis keyspace
    call,     \* caller -> the facade call it made last, and what it got
    wait,     \* onChange invocation -> its promise, subscriber and timer
    pending,  \* onChange invocation -> notifications published to its
              \* subscriber and not yet handed to its callback
    client,   \* this._client: the client of the cache, whose server and
              \* database hold the store
    index     \* the schema processor (00_Base/json-schema-processor.js):
              \* its input files, the results of processJsonSchema, and
              \* the model index it writes

vars == <<store, call, wait, pending, client, index>>

Ops == {"exists", "remove", "get", "set", "setIfNotExist"}
SyncOps == {"getSync", "setSync"}

\* ret: what the promise of the call settled with (what the call returned
\* or threw, for a blocking variant).
\* found, disturbed, expired are history: whether the storage key was live
\* when the command ran; whether the entry of the storage key was written,
\* deleted or expired by anything else after the command ran; and whether
\* the last such thing was its expiry.
\* skey: the storage key the command of the call was sent for.
NoCall ==
    [op |-> "none", key |-> "", namespace |-> "", value |-> "", skey |-> "",
     classConstructor |-> FALSE,
     ret |-> Pending, found |-> FALSE, disturbed |-> FALSE,
     expired |-> FALSE]

\* What the operation op does to the store st.
CallEffectWith(st, op, key, namespace, value, expireSeconds, classConstructor, fail) ==
    CASE op = "exists" -> exists(st, key, namespace, fail)
      [] op = "remove" -> remove(st, key, namespace, fail)
      [] op = "get" -> get(st, key, namespace, classConstructor, fail)
      [] op = "getSync" -> getSync(st, key, namespace, classConstructor, fail)
      [] op = "set" -> set(st, key, value, namespace, expireSeconds, fail)
      [] op = "setSync" ->
            setSync(st, key, value, namespace, expireSeconds, fail)
      [] op = "setIfNotExist" ->
            setIfNotExist(st, key, value, namespace, expireSeconds, fail)

\* The same, called with no deserializer.
CallEffect(st, op, key, namespace, value, expireSeconds, fail) ==
    CallEffectWith(st, op, key, namespace, value, expireSeconds, FALSE, fail)

\* The subscriber of w is subscribed, on the server of the store, to the
\* channel on which the store publishes the events of skey.
Hears(w, skey) ==
    /\ wait[w].sub = "open"
    /\ wait[w].subscriber.server = client.server
    /\ wait[w].channel = KeyspaceChannel(client.database, skey)

\* a store that hands a notification to one of the subscribers of a channel
PublishToOne(skey, events) ==
    LET subs == {w \in DOMAIN pending : Hears(w, skey)}
    IN  [w \in DOMAIN pending |->
            IF subs # {} /\ w = CHOOSE x \in subs : TRUE
            THEN pending[w] \cup events ELSE pending[w]]

\* The store publishes events about skey on the key's keyspace channel, to
\* the subscribers subscribed to it at that moment.
Publish(skey, events) ==
    [w \in DOMAIN pending |->
        IF Hears(w, skey)
        THEN pending[w] \cup events ELSE pending[w]]

\* The entries of skeys changed: the earlier calls on them are disturbed.
Disturb(cs, skeys) ==
    [c \in DOMAIN cs |->
        IF cs[c].op # "none" /\ cs[c].skey \in skeys
        THEN [cs[c] EXCEPT !.disturbed = TRUE, !.expired = FALSE]
        ELSE cs[c]]

\* The entries of skeys expired.
Expire(cs, skeys) ==
    [c \in DOMAIN cs |->
        IF cs[c].op # "none" /\ cs[c].skey \in skeys
        THEN [cs[c] EXCEPT !.disturbed = TRUE, !.expired = TRUE]
        ELSE cs[c]]

\* Caller c calls a facade operation: the one command of the operation runs
\* on the store, which runs commands one at a time (or it fails), and the
\* promise settles. Concurrent calls are commands in some order.
\* A caller outside DOMAIN call is one whose result is not looked at.
CallWith(c, op, key, namespace, value, expireSeconds, classConstructor, fail) ==
    \E e \in {CallEffectWith(store, op, key, namespace, value, expireSeconds,
                             classConstructor, fail)} :
    \E others \in {Disturb(call, IF e.events # {} THEN {e.skey} ELSE {})} :
        /\ store' = e.store
        /\ pending' = Publish(e.skey, e.events)
        /\ call' = IF c \in DOMAIN call
                   THEN [others EXCEPT ![c] =
                            [op |-> op, key |-> key, namespace |-> namespace,
                             value |-> value, skey |-> e.skey,
                             classConstructor |-> classConstructor,
                             ret |-> e.ret,
                             found |-> Live(store, e.skey),
                             disturbed |-> FALSE, expired |-> FALSE]]
                   ELSE others
        /\ UNCHANGED <<wait, client, index>>

\* The same, with no deserializer and a store that answers.
Call(c, op, key, namespace, value, expireSeconds) ==
    CallWith(c, op, key, namespace, value, expireSeconds, FALSE, FALSE)

\* ------------------------------------------------------------ onChange
\* One record per onChange invocation.
\*   k                the key argument
\*   namespace, key   the variables of that name after lines 50-51:
\*                    namespace || "default", and `${namespace}:${key}`
\*   channel          the channel the subscriber subscribes to
\*   subscriber       the client created at line 55
\*   sub              the subscription: "none", "requested" (subscribe was
\*                    called), "open", "failed", "closed" (quit was called)
\*   lost             history: the subscribe failed, or the subscription
\*                    was lost while the call was waiting
\*   timer            seconds until the setTimeout callback is due
\*   timerRan         the setTimeout callback has run
\*   runs             how many times the subscription callback has run
\*   reads, quits     how many this.get and subscriber.quit calls it made
\*   resolvedBy       whose resolve() call took effect: "none", "set",
\*                    "removed", "timeout"
\*   cause            history: the notification whose callback resolved the
\*                    call ("" when none did)
\*   outcome          what the returned promise has settled with, or Pending
\*   truth            history: what get(k, namespace) of the caller's own
\*                    arguments would have returned at the moment the get
\*                    that settled the call ran
IdleWait ==
    [phase |-> "idle", k |-> "k", namespace |-> "", key |-> "",
     channel |-> "", classConstructor |-> FALSE,
     subscriber |-> NoClient, sub |-> "none", lost |-> FALSE,
     timer |-> 0, timerRan |-> FALSE, runs |-> 0, reads |-> 0, quits |-> 0,
     resolvedBy |-> "none", cause |-> "", outcome |-> Pending,
     truth |-> Pending]

\* a resolve whose later calls take effect too
resolveAgain(wr, by, value) ==
    [wr EXCEPT !.resolvedBy = by, !.outcome = value]

\* resolve(value) of the promise of line 53: only the first call has an
\* effect. Resolved with the promise of a get (value = Pending), the call
\* settles when that get does.
resolve(wr, by, value) ==
    IF wr.resolvedBy = "none"
    THEN [wr EXCEPT !.resolvedBy = by, !.outcome = value]
    ELSE wr

\* this.get(key, namespace, classConstructor) is called: the command is sent.
IssueGet(wr) == [wr EXCEPT !.reads = @ + 1]

\* subscriber.quit()
quit(wr) == [wr EXCEPT !.quits = @ + 1, !.sub = "closed"]

\* a subscription callback that handles "del" as it handles "set"
onMessageGetOnDel(wr, message) ==
    LET ran == [wr EXCEPT !.runs = @ + 1] IN
    CASE message \in {"set", "del"} ->
            quit(IssueGet(resolve(ran, "set", Pending)))
      [] message = "expire" -> quit(resolve(ran, "removed", Null))
      [] OTHER -> ran

\* The subscription callback, lines 57-72.
onMessage(wr, message) ==
    LET ran == [wr EXCEPT !.runs = @ + 1] IN
    CASE message = "set" -> quit(IssueGet(resolve(ran, "set", Pending)))
      [] message \in {"del", "expire"} -> quit(resolve(ran, "removed", Null))
      [] OTHER -> ran

\* a setTimeout callback that does not quit the subscriber
onTimeoutNoQuit(wr) ==
    IssueGet(resolve([wr EXCEPT !.timerRan = TRUE], "timeout", Pending))

\* The setTimeout callback, lines 73-76.
onTimeout(wr) ==
    quit(IssueGet(resolve([wr EXCEPT !.timerRan = TRUE], "timeout", Pending)))

Messages == {"set", "del", "expire", "expired"}

\* onChange is called: the promise executor runs (lines 50-57, 73).
onChange(w, key, waitSeconds, namespace, classConstructor) ==
    /\ wait[w].phase = "idle"
    /\ LET ns == IF namespace = "" THEN "default" ELSE namespace
           skey == StorageKey(key, namespace) IN
       wait' = [wait EXCEPT ![w] =
            [IdleWait EXCEPT !.phase = "started", !.k = key,
                !.namespace = ns, !.key = skey, !.channel = Channel(skey),
                !.classConstructor = classConstructor,
                !.subscriber = createClient(NoOptions),
                !.sub = "requested", !.timer = waitSeconds]]
    /\ UNCHANGED <<store, call, pending, client, index>>

\* The subscriber's subscription is established.
Subscribed(w) ==
    /\ wait[w].sub = "requested"
    /\ wait' = [wait EXCEPT ![w].sub = "open"]
    /\ UNCHANGED <<store, call, pending, client, index>>

\* The subscriber's subscribe fails: its promise rejects, nothing handles it.
SubscribeFails(w) ==
    /\ wait[w].sub = "requested"
    /\ wait' = [wait EXCEPT ![w].sub = "failed", ![w].lost = TRUE]
    /\ UNCHANGED <<store, call, pending, client, index>>

\* The subscriber loses its connection while the call waits: nothing in
\* onChange listens for it (the subscriber has no 'error' handler).
SubscriptionLost(w) ==
    /\ wait[w].sub = "open"
    /\ wait' = [wait EXCEPT ![w].sub = "failed", ![w].lost = TRUE]
    /\ UNCHANGED <<store, call, pending, client, index>>

\* A notification reaches the subscription callback; again: the transport
\* will hand it over once more.
Deliver(w, message, again) ==
    /\ message \in pending[w]
    /\ wait[w].runs < MaxDeliveries
    /\ \E after \in {onMessage(wait[w], message)} :
        wait' = [wait EXCEPT ![w] =
            IF wait[w].resolvedBy = "none" /\ after.resolvedBy # "none"
            THEN [after EXCEPT !.cause = message] ELSE after]
    /\ pending' = [pending EXCEPT ![w] = IF again THEN @ ELSE @ \ {message}]
    /\ UNCHANGED <<store, call, client, index>>

\* A notification is lost.
Drop(w, message) ==
    /\ message \in pending[w]
    /\ pending' = [pending EXCEPT ![w] = @ \ {message}]
    /\ UNCHANGED <<store, call, wait, client, index>>

\* The timer is due and its callback runs.
Timeout(w) ==
    /\ wait[w].phase = "started"
    /\ wait[w].timer = 0
    /\ ~wait[w].timerRan
    /\ wait' = [wait EXCEPT ![w] = onTimeout(wait[w])]
    /\ UNCHANGED <<store, call, pending, client, index>>

\* The get whose promise the call was resolved with settles: the store
\* runs its command (or the command fails).
GetSettles(w, fail) ==
    /\ wait[w].resolvedBy \in {"set", "timeout"}
    /\ wait[w].outcome = Pending
    /\ wait' = [wait EXCEPT
            ![w].outcome =
                get(store, wait[w].key, wait[w].namespace,
                    wait[w].classConstructor, fail).ret,
            ![w].truth =
                get(store, wait[w].k, wait[w].namespace,
                    wait[w].classConstructor, fail).ret]
    /\ UNCHANGED <<store, call, pending, client, index>>

\* One second passes.
Tick ==
    /\ store' = Elapse1(store)
    /\ call' = Expire(call, Expiring(store))
    /\ pending' =
        [w \in DOMAIN pending |->
            IF \E skey \in Expiring(store) : Hears(w, skey)
            THEN pending[w] \cup {"expired"} ELSE pending[w]]
    /\ wait' = [w \in DOMAIN wait |->
            IF wait[w].timer > 0 THEN [wait[w] EXCEPT !.timer = @ - 1]
            ELSE wait[w]]
    /\ UNCHANGED <<client, index>>

\* ------------------------------------------------------------ schema processor
\* The promise of processJsonSchema for the i-th file resolves (the
\* compilations finish in any order).
ProcessJsonSchema(i) ==
    /\ index.pc = "processing"
    /\ i \in 1..Len(index.files)
    /\ index.values[i] = NotYet
    /\ index' = [index EXCEPT !.values[i] = processJsonSchema(index.files[i])]
    /\ UNCHANGED <<store, call, wait, pending, client>>

\* The callback of Promise.all(promises).then, lines 35-99: the values are
\* in the order of the files.
WriteIndex ==
    /\ index.pc = "processing"
    /\ \A i \in 1..Len(index.files) : index.values[i] # NotYet
    /\ \E globalDefinitions \in {AssignAll(<< >>, index.values)} :
        index' = [index EXCEPT
            !.pc = "done",
            !.globalDefinitions = globalDefinitions,
            !.globalEnums = AllEnums(index.values),
            !.exportStatements =
                PushExports(PrepareExports(globalDefinitions, << >>),
                            <<EnumsExport>>)]
    /\ UNCHANGED <<store, call, wait, pending, client>>

\* The files of the input directory, in the order readdir lists them: up to
\* MaxFiles schemas with different ids.
InputFiles ==
    {files \in UNION {[1..n -> [id : SchemaIds, definitions : DefinitionLists]] :
                        n \in 1..MaxFiles} :
        \A i, j \in 1..Len(files) : i # j => files[i].id # files[j].id}

SchemaInit ==
    /\ store = << >>
    /\ call = << >>
    /\ wait = [w \in Waits |-> IdleWait]
    /\ pending = [w \in Waits |-> {}]
    /\ client = constructor(NoOptions)
    /\ \E files \in InputFiles :
        index = [NoIndex EXCEPT !.pc = "processing", !.files = files,
                    !.values = [i \in 1..Len(files) |-> NotYet]]

SchemaNext == (\E i \in 1..MaxFiles : ProcessJsonSchema(i)) \/ WriteIndex
SchemaSpec == SchemaInit /\ [][SchemaNext]_vars

\* ------------------------------------------------------------ specifications
InitWith(callers) ==
    /\ store = << >>
    /\ call = [c \in callers |-> NoCall]
    /\ wait = [w \in Waits |-> IdleWait]
    /\ pending = [w \in Waits |-> {}]
    /\ client = constructor(NoOptions)
    /\ index = NoIndex

CallerStep ==
    \E c \in DOMAIN call, key \in CacheKeys, namespace \in CacheNamespaces :
        \/ \E op \in {"exists", "remove", "get"} :
                Call(c, op, key, namespace, "", 0)
        \/ \E op \in {"set", "setIfNotExist"}, value \in CacheValues,
              expireSeconds \in TTLArgs :
                Call(c, op, key, namespace, value, expireSeconds)

OtherStep ==
    \E namespace \in WaitNamespaces :
        \/ \E key \in OtherKeys :
                Call("other", "remove", key, namespace, "", 0)
        \/ \E wr \in OtherWrites :
                Call("other", "set", wr[1], namespace, wr[2], wr[3])

WaitStep ==
    \E w \in Waits :
        \/ \E key \in WaitKeys, waitSeconds \in 1..MaxWaitSeconds,
              namespace \in WaitNamespaces :
                onChange(w, key, waitSeconds, namespace, FALSE)
        \/ Subscribed(w)
        \/ SubscribeFails(w)
        \/ SubscriptionLost(w)
        \/ \E message \in Messages, again \in BOOLEAN :
                Deliver(w, message, again)
        \/ \E message \in Messages : Drop(w, message)
        \/ Timeout(w)
        \/ \E fail \in BOOLEAN : GetSettles(w, fail)

\* The facade used by concurrent callers.
Init == InitWith(Callers)
Next == CallerStep \/ Tick
Spec == Init /\ [][Next]_vars

\* onChange invocations, and other users of the cache beside them.
WaitInit == InitWith({})
WaitNext == OtherStep \/ WaitStep \/ Tick
WaitSpec == WaitInit /\ [][WaitNext]_vars

\* The same, where time passes, a due timer's callback runs, and the store
\* answers the get a call was resolved with (with a value or a failure).
FairWaitSpec ==
    /\ WaitSpec
    /\ WF_vars(Tick)
    /\ \A w \in Waits :
        /\ WF_vars(Timeout(w))
        /\ WF_vars(\E fail \in BOOLEAN : GetSettles(w, fail))

\* One caller, every operation of the facade, and an onChange whose
\* subscriber hears nothing, so that its timer resolves it.
FacadeStep ==
    \E c \in DOMAIN call, key \in FacadeKeys, namespace \in FacadeNamespaces,
       fail \in BOOLEAN :
        \/ \E op \in {"exists", "remove"} :
                CallWith(c, op, key, namespace, "", 0, FALSE, fail)
        \/ \E op \in {"get", "getSync"}, classConstructor \in BOOLEAN :
                CallWith(c, op, key, namespace, "", 0, classConstructor, fail)
        \/ \E op \in {"set", "setSync", "setIfNotExist"},
              value \in FacadeValues, expireSeconds \in TTLArgs :
                CallWith(c, op, key, namespace, value, expireSeconds, FALSE,
                         fail)

FacadeWaitStep ==
    \E w \in Waits :
        \/ \E key \in FacadeKeys, waitSeconds \in 1..MaxWaitSeconds,
              namespace \in FacadeNamespaces, classConstructor \in BOOLEAN :
                onChange(w, key, waitSeconds, namespace, classConstructor)
        \/ Timeout(w)
        \/ \E fail \in BOOLEAN : GetSettles(w, fail)

FacadeInit == InitWith(FacadeCallers)
FacadeNext == FacadeStep \/ FacadeWaitStep \/ Tick
FacadeSpec == FacadeInit /\ [][FacadeNext]_vars

\* Two onChange invocations and the other users of the store.
SharedInit ==
    /\ store = << >>
    /\ call = << >>
    /\ wait = [w \in SharedWaits |-> IdleWait]
    /\ pending = [w \in SharedWaits |-> {}]
    /\ client = constructor(NoOptions)
    /\ index = NoIndex

SharedOtherStep ==
    \E key \in SharedKeys :
        \/ Call("other", "remove", key, "", "", 0)
        \/ Call("other", "set", key, "", "X", 0)

SharedWaitStep ==
    \E w \in DOMAIN wait :
        \/ \E key \in SharedKeys, waitSeconds \in 1..MaxWaitSeconds :
                onChange(w, key, waitSeconds, "", FALSE)
        \/ Subscribed(w)
        \/ \E message \in SharedMessages : Deliver(w, message, FALSE)
        \/ Timeout(w)
        \/ GetSettles(w, FALSE)

SharedNext == SharedOtherStep \/ SharedWaitStep \/ Tick
SharedSpec == SharedInit /\ [][SharedNext]_vars

\* One caller, on keys and namespaces that contain ":".
ColonStep ==
    \E c \in DOMAIN call, key \in ColonKeys, namespace \in ColonNamespaces :
        \/ \E op \in {"exists", "remove", "get"} :
                Call(c, op, key, namespace, "", 0)
        \/ \E op \in {"set", "setIfNotExist"}, value \in ColonValues :
                Call(c, op, key, namespace, value, 0)

ColonInit == InitWith(FacadeCallers)
ColonNext == ColonStep
ColonSpec == ColonInit /\ [][ColonNext]_vars

\* A RedisCache constructed with any clientOptions, an onChange invocation
\* on it, and the writes and removes made through the same cache.
ConfigInit ==
    /\ store = << >>
    /\ call = << >>
    /\ wait = [w \in Waits |-> IdleWait]
    /\ pending = [w \in Waits |-> {}]
    /\ client \in {constructor(clientOptions) : clientOptions \in ClientOptions}
    /\ index = NoIndex

ConfigOtherStep ==
    \E key \in WaitKeys, namespace \in WaitNamespaces :
        \/ Call("other", "remove", key, namespace, "", 0)
        \/ Call("other", "set", key, namespace, "X", 0)

ConfigWaitStep ==
    \E w \in Waits :
        \/ \E key \in WaitKeys, waitSeconds \in 1..MaxWaitSeconds,
              namespace \in WaitNamespaces :
                onChange(w, key, waitSeconds, namespace, FALSE)
        \/ Subscribed(w)
        \/ \E message \in SharedMessages : Deliver(w, message, FALSE)
        \/ Timeout(w)
        \/ GetSettles(w, FALSE)

ConfigNext == ConfigOtherStep \/ ConfigWaitStep \/ Tick
ConfigSpec == ConfigInit /\ [][ConfigNext]_vars

\* ------------------------------------------------------------ claims
\* What get(key, namespace), with no deserializer, returns on the store st.
Got(st, key, namespace) == get(st, key, namespace, FALSE, FALSE).ret

SetIfNotExistCalls(c1, c2) ==
    /\ c1 # c2
    /\ call[c1].op = "setIfNotExist" /\ call[c2].op = "setIfNotExist"
    /\ call[c1].skey = call[c2].skey
    /\ ~call[c1].disturbed /\ ~call[c2].disturbed
    /\ ~(call[c1].found /\ call[c2].found)

\* C1: of two setIfNotExist calls on the same (key, namespace), the first of
\* which found no live entry, and with nothing else touching the entry
\* since, exactly one returned true and the other false, and a get now
\* returns the value of the one that returned true.
C1_SetIfNotExistExclusive ==
    \A c1, c2 \in DOMAIN call :
        SetIfNotExistCalls(c1, c2) =>
            \E w \in {c1, c2} :
                /\ call[w].ret = Bool(TRUE)
                /\ \A l \in {c1, c2} \ {w} : call[l].ret = Bool(FALSE)
                /\ Got(store, call[w].key, call[w].namespace)
                        = Str(call[w].value)

\* The part of C1 that does not read the value back: exactly one of the two
\* calls returned true, and the entry holds the value of that call.
C1_ExactlyOneWins ==
    \A c1, c2 \in DOMAIN call :
        SetIfNotExistCalls(c1, c2) =>
            \E w \in {c1, c2} :
                /\ call[w].ret = Bool(TRUE)
                /\ \A l \in {c1, c2} \ {w} : call[l].ret = Bool(FALSE)
                /\ Live(store, call[w].skey)
                /\ store[call[w].skey].val = call[w].value

\* C9: a set(k, v, ns, ttl) leaves the store such that a get(k, ns) that
\* follows immediately returns exactly v, and such that, once ttl seconds
\* have passed with no further write, get(k, ns) returns absent.
C9_SetThenGet ==
    [][\A c \in DOMAIN call, expireSeconds \in TTLArgs :
        LET r == call'[c] IN
            (/\ r.op = "set"
             /\ Call(c, "set", r.key, r.namespace, r.value, expireSeconds))
            => /\ r.ret = Bool(TRUE)
               /\ Got(store', r.key, r.namespace) = Str(r.value)
               /\ expireSeconds > 0 =>
                    Got(Elapse(store', expireSeconds), r.key, r.namespace)
                        = Null
      ]_vars

\* C10: a setIfNotExist on a key that has a live entry returns false and
\* changes nothing: the value and the remaining expiry of the key, and every
\* other key, are as before, and nothing is published.
C10_SetIfNotExistOnLiveKey ==
    [][\A c \in DOMAIN call, expireSeconds \in TTLArgs :
        LET r == call'[c] IN
            (/\ r.op = "setIfNotExist"
             /\ Live(store, r.skey)
             /\ Call(c, "setIfNotExist", r.key, r.namespace, r.value,
                     expireSeconds))
            => /\ r.ret = Bool(FALSE)
               /\ store' = store
               /\ pending' = pending
      ]_vars

\* A setIfNotExist found an entry holding another value, beside an entry of
\* another key, and returned false.
C10_Witness ==
    \E c \in DOMAIN call :
        /\ call[c].op = "setIfNotExist" /\ call[c].found
        /\ call[c].ret = Bool(FALSE)
        /\ ~call[c].disturbed
        /\ store[call[c].skey].val # call[c].value
        /\ store[call[c].skey].ttl > 0
        /\ DOMAIN store # {call[c].skey}

\* C11: a remove returns true exactly when the entry was live, and leaves
\* the key absent and every other entry as it was; a remove of an absent key
\* returns false, changes nothing and publishes nothing. So of the remove
\* calls on one (key, namespace) with no write between them, at most one,
\* the first to take effect, returned true.
C11_RemoveOnce ==
    [][/\ \A c \in DOMAIN call :
            LET r == call'[c] IN
                (/\ r.op = "remove"
                 /\ Call(c, "remove", r.key, r.namespace, "", 0))
                => /\ r.ret = Bool(Live(store, r.skey))
                   /\ ~Live(store', r.skey)
                   /\ \A k \in DOMAIN store \ {r.skey} :
                        Live(store', k) /\ store'[k] = store[k]
                   /\ ~Live(store, r.skey) =>
                        store' = store /\ pending' = pending
       /\ \A c1, c2 \in DOMAIN call :
            (/\ c1 # c2
             /\ call'[c1].op = "remove" /\ call'[c2].op = "remove"
             /\ call'[c1].skey = call'[c2].skey
             /\ ~call'[c1].disturbed /\ ~call'[c2].disturbed)
            => ~(call'[c1].ret = Bool(TRUE) /\ call'[c2].ret = Bool(TRUE))
      ]_vars

\* Two removes of one key with no write between them: the first found the
\* entry and returned true, the second returned false; another entry is
\* still there.
C11_Witness ==
    \E c1, c2 \in DOMAIN call :
        /\ c1 # c2
        /\ call[c1].op = "remove" /\ call[c2].op = "remove"
        /\ call[c1].skey = call[c2].skey
        /\ ~call[c1].disturbed /\ ~call[c2].disturbed
        /\ call[c1].found /\ call[c1].ret = Bool(TRUE)
        /\ ~call[c2].found /\ call[c2].ret = Bool(FALSE)
        /\ store # << >>

\* ------------------------------------------------------------ onChange claims
Settled(w) == wait[w].outcome # Pending

\* C2: a call that a "set" notification resolved settles with what
\* get(k, namespace) returns, the value stored under (k, namespace).
C2_SetResolvesWithStoredValue ==
    \A w \in Waits :
        (wait[w].resolvedBy = "set" /\ Settled(w)) =>
            wait[w].outcome = wait[w].truth

\* C3: a call that its timer resolved settles with exactly what
\* get(k, namespace) returns at that moment.
C3_TimeoutResolvesWithGet ==
    \A w \in Waits :
        (wait[w].resolvedBy = "timeout" /\ Settled(w)) =>
            wait[w].outcome = wait[w].truth

\* C4: when the "del" notification of its key reaches a call that is still
\* waiting, the call settles with absent at once, and no get is issued.
C4_RemovedResolvesAbsent ==
    [][\A w \in Waits :
        (/\ wait[w].resolvedBy = "none"
         /\ \E again \in BOOLEAN : Deliver(w, "del", again))
        => /\ wait'[w].resolvedBy = "removed"
           /\ wait'[w].outcome = Null
           /\ wait'[w].reads = wait[w].reads
      ]_vars

\* A call resolved as removed, with no get issued and its timer not yet
\* run, while the store holds a value again.
C4_Witness ==
    \E w \in Waits :
        /\ wait[w].resolvedBy = "removed" /\ wait[w].outcome = Null
        /\ wait[w].cause = "del"
        /\ wait[w].reads = 0 /\ ~wait[w].timerRan
        /\ wait[w].runs = 1
        /\ store # << >>

\* C5: once a call is resolved, what resolved it never changes, and once it
\* has settled, what it settled with never changes: later notifications,
\* repeated ones and the timer have no effect on it.
C5_ResolvedOnce ==
    [][\A w \in Waits :
        /\ wait[w].resolvedBy # "none" =>
                wait'[w].resolvedBy = wait[w].resolvedBy
        /\ Settled(w) => wait'[w].outcome = wait[w].outcome
        /\ wait'[w].resolvedBy = "removed" => wait'[w].outcome = Null
      ]_vars

\* A call resolved by a notification, settled, after which the callback ran
\* again and the timer ran too.
C5_Witness ==
    \E w \in Waits :
        /\ wait[w].resolvedBy \in {"set", "removed"} /\ Settled(w)
        /\ wait[w].runs = MaxDeliveries /\ wait[w].timerRan
        /\ wait[w].quits > wait[w].runs

\* C6: the timer of a call that a notification resolved is cancelled: its
\* callback never runs.
C6_TimerCancelled ==
    \A w \in Waits :
        wait[w].resolvedBy \in {"set", "removed"} => ~wait[w].timerRan

\* C7: a call that has settled has had quit called on its subscriber, and
\* its subscription is not open.
C7_SettledImpliesClosed ==
    \A w \in Waits :
        Settled(w) => wait[w].quits >= 1 /\ wait[w].sub = "closed"

\* A call settled by a failed get, its subscriber closed.
C7_Witness ==
    \E w \in Waits :
        /\ wait[w].outcome = Rejected("store")
        /\ wait[w].quits = 1 /\ wait[w].sub = "closed"

\* C8: every call eventually settles, and a call that no notification
\* ever reached settles by its timer with the state of its key (k, namespace)
\* as read at that time.
C8_SettlesWithKeyState ==
    \A w \in Waits :
        (wait[w].phase = "started") ~>
            (/\ Settled(w)
             /\ wait[w].runs = 0 =>
                    /\ wait[w].resolvedBy = "timeout"
                    /\ wait[w].outcome = wait[w].truth)

\* The part of C8 that is about settling alone.
C8_EventuallySettles ==
    \A w \in Waits : (wait[w].phase = "started") ~> Settled(w)

\* C12: a call whose subscribe failed, or whose subscription was lost while
\* it waited, settles with a store failure, never with a value or absent.
C12_LostSubscriptionFails ==
    \A w \in Waits :
        (wait[w].lost /\ Settled(w)) => wait[w].outcome = Rejected("store")

ReadKey(wr) ==
    get(<< >>, wr.key, wr.namespace, wr.classConstructor, FALSE).skey

\* C14: an onChange call on (k, namespace) subscribes to the channel of the
\* one storage key of (k, namespace), and every read it issues is a read of
\* that storage key.
C14_OneStorageKey ==
    \A w \in Waits :
        wait[w].phase = "started" =>
            /\ wait[w].channel = Channel(StorageKey(wait[w].k, wait[w].namespace))
            /\ wait[w].reads > 0 =>
                    ReadKey(wait[w]) = StorageKey(wait[w].k, wait[w].namespace)

\* what each operation returns on a key that was never written
NeverWritten(op) ==
    CASE op \in {"exists", "remove"} -> Bool(FALSE)
      [] op = "get" -> Null
      [] op \in {"set", "setIfNotExist"} -> Bool(TRUE)

\* C15: a call on a key with no live entry returns what it returns on a key
\* never written (exists false, get absent, remove false, setIfNotExist
\* true), and a key whose entry has expired, with no write since, has no
\* live entry for the calls that follow.
C15_ExpiredAsNeverWritten ==
    /\ \A c \in DOMAIN call :
            (call[c].op # "none" /\ ~call[c].found) =>
                call[c].ret = NeverWritten(call[c].op)
    /\ \A c1, c2 \in DOMAIN call :
            (/\ c1 # c2
             /\ call[c1].op # "none" /\ call[c1].expired
             /\ call[c2].op # "none" /\ call[c2].skey = call[c1].skey
             /\ ~call[c2].disturbed)
            => /\ ~call[c2].found
               /\ ~Live(store, call[c2].skey)

\* A set whose entry has expired, and a remove of the same key after that,
\* with no write between, which returned false.
C15_Witness ==
    \E c1, c2 \in DOMAIN call :
        /\ c1 # c2
        /\ call[c1].op = "set" /\ call[c1].ret = Bool(TRUE)
        /\ call[c1].expired
        /\ call[c2].op = "remove" /\ call[c2].skey = call[c1].skey
        /\ ~call[c2].disturbed
        /\ call[c2].ret = Bool(FALSE)

\* C16: getSync returns what get, called with the same arguments on the
\* same store, resolves with, and throws what it rejects with; setSync
\* returns what set resolves with, throws what it rejects with, and leaves
\* the store and the published notifications that set leaves. Neither
\* returns before the operation has settled.
C16_SyncAsAsync ==
    [][\A c \in DOMAIN call, expireSeconds \in TTLArgs, fail \in BOOLEAN :
        LET r == call'[c] IN
            /\ (/\ r.op = "getSync"
                 /\ CallWith(c, "getSync", r.key, r.namespace, r.value,
                             expireSeconds, r.classConstructor, fail))
                => \E a \in {get(store, r.key, r.namespace,
                                 r.classConstructor, fail)} :
                        /\ r.ret = IF a.ret.t = "rejected"
                                   THEN Thrown(a.ret.e) ELSE a.ret
                        /\ r.ret # Pending
                        /\ r.skey = a.skey
                        /\ store' = a.store
            /\ (/\ r.op = "setSync"
                 /\ CallWith(c, "setSync", r.key, r.namespace, r.value,
                             expireSeconds, r.classConstructor, fail))
                => \E a \in {set(store, r.key, r.value, r.namespace,
                                 expireSeconds, fail)} :
                        /\ r.ret = IF a.ret.t = "rejected"
                                   THEN Thrown(a.ret.e) ELSE a.ret
                        /\ r.ret # Pending
                        /\ r.skey = a.skey
                        /\ store' = a.store
                        /\ pending' = Publish(a.skey, a.events)
      ]_vars

\* A setSync that overwrote a live entry and attached an expiry returned
\* true.
C16_Witness ==
    \E c \in DOMAIN call :
        /\ call[c].op = "setSync" /\ call[c].found
        /\ call[c].ret = Bool(TRUE)
        /\ ~call[c].disturbed
        /\ store[call[c].skey].val = call[c].value
        /\ store[call[c].skey].ttl > 0

\* a failure of the deserializer, as a rejection or thrown to a blocked caller
FormatError(ret) == ret \in {Rejected("syntax"), Thrown("syntax")}

\* C17: a get or getSync with a deserializer, on a store that answers,
\* returns absent when the key has no entry; when it has one, it returns
\* the deserialized payload, or fails with a format error when the payload
\* cannot be deserialized, and a format error is not a store failure.
C17_DeserializerApplied ==
    [][\A c \in DOMAIN call :
        LET r == call'[c] IN
            (/\ r.op \in {"get", "getSync"}
             /\ r.classConstructor
             /\ CallWith(c, r.op, r.key, r.namespace, "", 0, TRUE, FALSE))
            => IF Live(store, r.skey)
               THEN IF IsJson(store[r.skey].val)
                    THEN r.ret = Instance(store[r.skey].val)
                    ELSE /\ FormatError(r.ret)
                         /\ r.ret \notin {Rejected("store"), Thrown("store")}
               ELSE r.ret = Null
      ]_vars

\* The part of C17 about the entries whose payload is not the empty string.
C17_NonEmptyPayloads ==
    [][\A c \in DOMAIN call :
        LET r == call'[c] IN
            (/\ r.op \in {"get", "getSync"}
             /\ r.classConstructor
             /\ CallWith(c, r.op, r.key, r.namespace, "", 0, TRUE, FALSE))
            => IF Live(store, r.skey) /\ store[r.skey].val # ""
               THEN IF IsJson(store[r.skey].val)
                    THEN r.ret = Instance(store[r.skey].val)
                    ELSE /\ FormatError(r.ret)
                         /\ r.ret \notin {Rejected("store"), Thrown("store")}
               ELSE r.ret = Null
      ]_vars

\* the entry of skey is not the same before and after the step
EntryChanged(skey) ==
    \/ Live(store, skey) # Live(store', skey)
    \/ Live(store, skey) /\ Live(store', skey) /\ store[skey] # store'[skey]

C19_RemovedEvents ==
    [][\A w \in Waits, again \in BOOLEAN :
        wait[w].resolvedBy = "none" =>
            /\ Deliver(w, "expired", again) =>
                    /\ wait'[w].resolvedBy = "removed"
                    /\ wait'[w].outcome = Null
            /\ Deliver(w, "expire", again) =>
                    wait'[w].resolvedBy = "none"
      ]_vars

\* what exists(key, namespace) returns on the store st
Exists(st, key, namespace) == exists(st, key, namespace, FALSE).ret

\* C20: a set, setIfNotExist or remove on (key, namespace) leaves what get
\* and exists return for every other (key, namespace) pair as it was, and
\* the other pair has another storage key (and so another channel).
C20_DistinctKeysIndependent ==
    [][\A c \in DOMAIN call :
        LET r == call'[c] IN
            (/\ r.op \in {"set", "setIfNotExist", "remove"}
             /\ Call(c, r.op, r.key, r.namespace, r.value, 0))
            => \A key \in ColonKeys, namespace \in ColonNamespaces :
                    <<key, namespace>> # <<r.key, r.namespace>> =>
                        /\ StorageKey(key, namespace) # r.skey
                        /\ Channel(StorageKey(key, namespace))
                                # Channel(r.skey)
                        /\ Got(store', key, namespace)
                                = Got(store, key, namespace)
                        /\ Exists(store', key, namespace)
                                = Exists(store, key, namespace)
      ]_vars

\* The part of C20 about pairs that do have different storage keys.
C20_OtherStorageKeysUntouched ==
    [][\A c \in DOMAIN call :
        LET r == call'[c] IN
            (/\ r.op \in {"set", "setIfNotExist", "remove"}
             /\ Call(c, r.op, r.key, r.namespace, r.value, 0))
            => \A key \in ColonKeys, namespace \in ColonNamespaces :
                    StorageKey(key, namespace) # r.skey =>
                        /\ Got(store', key, namespace)
                                = Got(store, key, namespace)
                        /\ Exists(store', key, namespace)
                                = Exists(store, key, namespace)
      ]_vars

\* C21: the subscriber of an onChange call is a client for the server and
\* the database of the cache's own client, subscribed to the channel on
\* which that database publishes the events of the watched key, and
\* connect() has been called on it.
C21_SubscriberOnSameStore ==
    \A w \in DOMAIN wait :
        wait[w].phase = "started" =>
            /\ wait[w].subscriber.server = client.server
            /\ wait[w].subscriber.database = client.database
            /\ wait[w].channel = KeyspaceChannel(client.database, wait[w].key)
            /\ wait[w].subscriber.connect

\* The part of C21 that holds: for a cache constructed with no options, or
\* with options that name the local server and database 0, the subscriber
\* is for the same server and database and the channel is the right one.
C21_SameStoreByDefault ==
    \A w \in DOMAIN wait :
        (/\ wait[w].phase = "started"
         /\ client = constructor(NoOptions))
        => /\ wait[w].subscriber.server = client.server
           /\ wait[w].subscriber.database = client.database
           /\ wait[w].channel
                = KeyspaceChannel(client.database, wait[w].key)

\* the i-th input schema declares name: it is its id or one of its definitions
Declares(i, name) ==
    \/ index.files[i].id = name
    \/ \E p \in 1..Len(index.files[i].definitions) :
            index.files[i].definitions[p] = name

\* the ids and the definition names without "EnumType" of the input schemas
ExportedNames ==
    {name \in UNION {{index.files[i].id} \cup
                        {index.files[i].definitions[p] :
                            p \in 1..Len(index.files[i].definitions)} :
                     i \in 1..Len(index.files)} :
        name \in SchemaIds \/ ~IncludesEnumType(name)}

\* where the types exports of the model index list name: <<statement, place>>
Listings(name) ==
    {jp \in (1..Len(index.exportStatements))
                \X (1..Len(index.globalDefinitions)) :
        /\ index.exportStatements[jp[1]].kind = "types"
        /\ jp[2] <= Len(index.exportStatements[jp[1]].names)
        /\ index.exportStatements[jp[1]].names[jp[2]] = name}

\* the export statements of the given kind from the schema id
ExportsFrom(kind, id) ==
    {j \in 1..Len(index.exportStatements) :
        /\ index.exportStatements[j].kind = kind
        /\ index.exportStatements[j].from = id}

\* the schemas that definitions are attributed to
Owners ==
    {index.globalDefinitions[q][2] : q \in 1..Len(index.globalDefinitions)}

\* C22: in the model index written for any input schemas in any order,
\* every schema id and every definition name without "EnumType" is listed
\* exactly once, in the types export of one schema that declares it, and is
\* not the name of a schema export; no types export lists a name with
\* "EnumType"; and each schema that definitions are attributed to, and
\* no other, has exactly one types export and one schema export.
C22_IndexExports ==
    index.pc = "done" =>
        /\ \A name \in ExportedNames :
                /\ Cardinality(Listings(name)) = 1
                /\ \A jp \in Listings(name) :
                        \E i \in 1..Len(index.files) :
                            /\ index.files[i].id
                                    = index.exportStatements[jp[1]].from
                            /\ Declares(i, name)
                /\ \A j \in 1..Len(index.exportStatements) :
                        index.exportStatements[j].kind = "schema" =>
                            index.exportStatements[j].name # name
        /\ \A j \in 1..Len(index.exportStatements) :
                index.exportStatements[j].kind = "types" =>
                    \A p \in 1..Len(index.exportStatements[j].names) :
                        ~IncludesEnumType(index.exportStatements[j].names[p])
        /\ \A id \in SchemaIds :
                IF id \in Owners
                THEN /\ Cardinality(ExportsFrom("types", id)) = 1
                     /\ Cardinality(ExportsFrom("schema", id)) = 1
                ELSE /\ ExportsFrom("types", id) = {}
                     /\ ExportsFrom("schema", id) = {}

\* An index written for two schemas that both declare "CustomDataType", one
\* of them with an enum type too: the types export of the second lists it.
C22_Witness ==
    /\ index.pc = "done"
    /\ Len(index.files) = 2
    /\ Declares(1, "CustomDataType") /\ Declares(2, "CustomDataType")
    /\ Declares(1, "StatusEnumType")
    /\ \E j \in ExportsFrom("types", index.files[2].id) :
            \E p \in 1..Len(index.exportStatements[j].names) :
                index.exportStatements[j].names[p] = "CustomDataType"
    /\ ExportsFrom("types", index.files[1].id) # {}

====
